---- MODULE Spec2Model ----
(***************************************************************************)
(* Session lifecycle of the ChatOrbit minimal API (backend/app/main.py):   *)
(* token issuance with the hourly rate limiter, the two-seat join          *)
(* protocol, lazily recomputed session status, explicit delete, abuse      *)
(* reports and the expiry timeout of the websocket loop.                   *)
(*                                                                         *)
(* Time is in seconds and the clock moves forward through Instants.        *)
(* Every HTTP handler is one atomic action (one database transaction);     *)
(* the websocket loop is split at its one suspension point, the wait for   *)
(* a message or the expiry timeout.                                        *)
(***************************************************************************)
EXTENDS Integers, Sequences, FiniteSets, TLC

VARIABLES
    now,        \* wall clock, utcnow()
    settings,   \* Settings(): the configuration read at start-up
    sessions,   \* table tokensession (with its sessionparticipant rows)
    logs,       \* table tokenrequestlog
    reports,    \* table abusereport
    loops,      \* websocket_session tasks, one per accepted connection
    hub,        \* ConnectionManager._connections
    resp,       \* the last HTTP response or status broadcast sent
    hist,       \* history: tokens once DELETED, first seat handed to each rejoin key
    inflight,   \* join requests that have loaded their session and not committed
    lock,       \* ConnectionManager._lock: the loop whose broadcast holds it, or Free
    casts       \* broadcasts in progress, by the handle of the loop that sends

vars == <<now, settings, sessions, logs, reports, loops, hub, resp, hist, inflight,
          lock, casts>>

----------------------------------------------------------------------------
(* Bounds of the exploration *)

MaxSessions == 2
MaxRateLimit == 1
MaxReports == 1
MaxLoops == 1
MaxConns == 2
MaxJoiners == 2

(* Inputs *)

None == "None"
NoTime == 0 - 1
NoPid == <<>>
Free == <<>>
Identities == {"idA"}
IPs == {"10.0.0.1", "10.0.0.2"}
LocalIPs == {"10.0.0.1"}
TtlMinutes == {30}
Instants == {0, 1800, 86401}

(* Program constants *)

HourSeconds == 3600
OneDaySeconds == 86400

(* The tokens that are handed to clients; a session whose token is not     *)
(* shared is issued and then left alone                                    *)
SharedTokens == {1}

----------------------------------------------------------------------------
(* models.SessionStatus *)

ISSUED == "issued"
ACTIVE == "active"
CLOSED == "closed"
EXPIRED == "expired"
DELETED == "deleted"

Terminal == {CLOSED, EXPIRED, DELETED}

(* Python truthiness of an optional string: None and "" are false *)
Truthy(x) == x # None /\ x # ""

(* schemas.ValidityPeriod.as_timedelta, in seconds *)
ValidityPeriods == {"1_day"}
as_timedelta(p) == IF p = "1_day" THEN OneDaySeconds ELSE 7 * OneDaySeconds

----------------------------------------------------------------------------
(* enforce_rate_limit: the number of log rows the limiter counts for a     *)
(* request, and whether the request is rejected (HTTP 429)                 *)

RECURSIVE CountRowsAllTime(_, _, _, _)
CountRowsAllTime(rows, ip, client_identity, t) ==
    IF rows = <<>> THEN 0
    ELSE LET r == Head(rows)
             hit == IF Truthy(client_identity)
                    THEN r.client_identity = client_identity
                    ELSE r.ip_address = ip
         IN (IF hit THEN 1 ELSE 0) + CountRowsAllTime(Tail(rows), ip, client_identity, t)

RECURSIVE CountRows(_, _, _, _)
CountRows(rows, ip, client_identity, t) ==
    IF rows = <<>> THEN 0
    ELSE LET r == Head(rows)
             hit == /\ r.created_at >= t - HourSeconds
                    /\ IF Truthy(client_identity)
                       THEN r.client_identity = client_identity
                       ELSE r.ip_address = ip
         IN (IF hit THEN 1 ELSE 0) + CountRows(Tail(rows), ip, client_identity, t)

enforce_rate_limit(rows, ip, client_identity, t, limit) ==
    CountRows(rows, ip, client_identity, t) >= limit

(* ensure_session_state: the lazy transitions applied to a loaded row *)
ensure_session_state_late(s, t) ==
    IF s.status \in Terminal THEN s
    ELSE IF s.status = ISSUED /\ t > s.validity_expires_at
         THEN [s EXCEPT !.status = EXPIRED]
    ELSE IF s.status = ACTIVE /\ s.ended_at # NoTime /\ t > s.ended_at
         THEN [s EXCEPT !.status = CLOSED]
    ELSE s

ensure_session_state(s, t) ==
    IF s.status \in Terminal THEN s
    ELSE IF s.status = ISSUED /\ t > s.validity_expires_at
         THEN [s EXCEPT !.status = EXPIRED]
    ELSE IF s.status = ACTIVE /\ s.ended_at # NoTime /\ t >= s.ended_at
         THEN [s EXCEPT !.status = CLOSED]
    ELSE s

----------------------------------------------------------------------------
(* Responses *)

NoRequest == [report_id |-> 0, status |-> None, escalation_step |-> None,
              admin_notes |-> None]

NoResp == [op |-> "none", token |-> 0, code |-> 0, detail |-> "",
           participant_id |-> NoPid, role |-> "", session_active |-> FALSE,
           status |-> "", deliveries |-> {}, request |-> NoRequest,
           report_id |-> 0, mail |-> <<>>]

(* hist.deleted: the tokens whose session has been DELETED at some time;   *)
(* hist.joined: <<token, key, participant id>> for the first successful     *)
(* join without participant_id made with each key (the client identity,    *)
(* or the address when no identity is supplied); it is recorded only       *)
(* where hist.track is set, in the specification of the rejoin protocol    *)
RejoinKey(ip, client_identity) == IF Truthy(client_identity) THEN client_identity ELSE ip

NoteDeleted(tok, s) ==
    [hist EXCEPT !.deleted = IF s.status = DELETED THEN @ \cup {tok} ELSE @]

NoteJoined(tok, key, pid) ==
    [hist EXCEPT !.joined = IF ~hist.track \/ \E e \in @ : e[1] = tok /\ e[2] = key
                            THEN @ ELSE @ \cup {<<tok, key, pid>>}]

(* Settings: the mail transport and the moderation address, set or not *)
SmtpHosts == {None, "smtp.example.org"}
NotificationAddresses == {None, "abuse@example.org"}

(* config.Settings, lines 17-20; limits holds the configured pairs of the   *)
(* least and the greatest message length, 200 and 16000 by default          *)
InitConfigured(track, hosts, addresses, limits) ==
    /\ now = 0
    /\ settings \in {[token_rate_limit_per_hour |-> n,
                       smtp_host |-> h,
                       abuse_notifications_email |-> a,
                       min_message_char_limit |-> l[1],
                       max_message_char_limit |-> l[2]] :
                          n \in 1..MaxRateLimit, h \in hosts, a \in addresses,
                          l \in limits}
    /\ sessions = <<>>
    /\ logs = <<>>
    /\ reports = <<>>
    /\ loops = [c \in {} |-> NoTime]
    /\ hub = {}
    /\ resp = NoResp
    /\ hist = [track |-> track, deleted |-> {}, joined |-> {}]
    /\ inflight = {}
    /\ lock = Free
    /\ casts = << >>

InitSettings(track, hosts, addresses) ==
    InitConfigured(track, hosts, addresses, {<<200, 16000>>})

InitDb(track) == InitSettings(track, {None}, {None})

Init == InitDb(FALSE)

(* The clock advances; resp holds what was sent at the current instant,    *)
(* so it is cleared                                                        *)
Tick ==
    /\ \E t \in Instants : t > now /\ now' = t
    /\ resp' = NoResp
    /\ UNCHANGED <<settings, sessions, logs, reports, loops, hub, hist, inflight, lock, casts>>

(* line 552: int(request.session_ttl_minutes) * 60 *)
session_ttl_seconds(minutes) == minutes * 60

(* schemas.CreateTokenRequest.message_char_limit: conint(ge=200, le=16000) *)
(* with default 2000                                                       *)
(* lines 540-543: min(max(requested, min limit), max limit) *)
message_limit_as_requested(requested, cfg) == requested

message_limit(requested, cfg) ==
    LET raised == IF requested >= cfg.min_message_char_limit
                  THEN requested ELSE cfg.min_message_char_limit
    IN IF raised <= cfg.max_message_char_limit
       THEN raised ELSE cfg.max_message_char_limit

(* POST /api/tokens, called from the addresses ips with the identities ids *)
(* and the message limits in limits                                        *)
IssueTokenLimited(ips, ids, limits) ==
    \E ip \in ips, client_identity \in ids,
       ttl \in TtlMinutes, period \in ValidityPeriods,
       message_char_limit \in limits :
        LET limited == enforce_rate_limit(logs, ip, client_identity, now,
                                          settings.token_rate_limit_per_hour)
        IN IF limited
           THEN /\ resp' = [NoResp EXCEPT !.op = "issue", !.code = 429,
                       !.detail = "Token request limit reached for this identifier. Please try again later."]
                /\ UNCHANGED <<now, settings, sessions, logs, reports, loops, hub, hist, inflight, lock, casts>>
           ELSE /\ Len(sessions) < MaxSessions
                /\ sessions' = Append(sessions,
                      [validity_expires_at |-> now + as_timedelta(period),
                       session_ttl_seconds |-> session_ttl_seconds(ttl),
                       message_char_limit |-> message_limit(message_char_limit, settings),
                       created_at |-> now,
                       started_at |-> NoTime,
                       ended_at |-> NoTime,
                       status |-> ISSUED,
                       participants |-> <<>>])
                /\ logs' = Append(logs,
                      [session_id |-> Len(sessions) + 1,
                       ip_address |-> ip,
                       client_identity |-> client_identity,
                       created_at |-> now])
                /\ resp' = [NoResp EXCEPT !.op = "issue", !.code = 200,
                       !.token = Len(sessions) + 1]
                /\ UNCHANGED <<now, settings, reports, loops, hub, hist, inflight, lock, casts>>

IssueToken(ips, ids) == IssueTokenLimited(ips, ids, {2000})

IssuerIPs == IPs
IssuerIdentities == Identities \cup {None}

(* any caller *)
issue_token == IssueToken(IssuerIPs, IssuerIdentities)

(* callers from one address, asking for any message limit *)
issue_token_limited == IssueTokenLimited(LocalIPs, IssuerIdentities, {200, 2000, 16000})

(* callers that send no client identity, from one address *)
issue_token_anonymous == IssueToken(LocalIPs, {None})

----------------------------------------------------------------------------
(* Participants of a session are kept in creation order; participant ids   *)
(* (uuid4) are modelled as <<token, seat>>.                                *)

HasParticipant(s, pid) == \E k \in 1..Len(s.participants) : s.participants[k].id = pid

IndexOf(s, pid) == CHOOSE k \in 1..Len(s.participants) : s.participants[k].id = pid

(* next((p for p in participants if ...), None): index of the first match, 0 if none *)
FirstByIdentity(ps, client_identity) ==
    LET hits == {k \in 1..Len(ps) : ps[k].client_identity = client_identity}
    IN IF hits = {} THEN 0 ELSE CHOOSE k \in hits : \A j \in hits : k <= j

FirstByAddress(ps, ip) ==
    LET hits == {k \in 1..Len(ps) : ps[k].ip_address = ip}
    IN IF hits = {} THEN 0 ELSE CHOOSE k \in hits : \A j \in hits : k <= j

(* join_session, lines 636-646: the seat an identity/address rejoin resolves to *)
ExistingParticipant(ps, ip, client_identity) ==
    IF Truthy(client_identity) THEN FirstByIdentity(ps, client_identity)
    ELSE FirstByAddress(ps, ip)

(* the metadata a reclaim overwrites *)
ReclaimedAddressOnly(p, ip, client_identity) == [p EXCEPT !.ip_address = ip]

Reclaimed(p, ip, client_identity) ==
    [p EXCEPT !.ip_address = ip, !.client_identity = client_identity]

(* lines 586-591: the reason a terminal session is refused with *)
GoneDetailAlwaysClosed(st) == "Session already closed."

GoneDetail(st) ==
    IF st = EXPIRED THEN "Token expired."
    ELSE IF st = CLOSED THEN "Session already closed."
    ELSE "Session has been deleted."

(* line 679: no seat is left *)
SeatsFullOffByOne(ps) == Len(ps) > 2

SeatsFull(ps) == Len(ps) >= 2

(* line 682: the role of a newly created participant *)
NewRoleAlwaysHost(ps) == "host"

NewRole(ps) == IF Len(ps) = 0 THEN "host" ELSE "guest"

(* lines 694-697: the second participant makes the session live *)
ActivatedMinutesAsSeconds(s, role, t) ==
    IF role = "guest"
    THEN [s EXCEPT !.status = ACTIVE, !.started_at = t,
                   !.ended_at = t + s.session_ttl_seconds * 60]
    ELSE s

Activated(s, role, t) ==
    IF role = "guest"
    THEN [s EXCEPT !.status = ACTIVE, !.started_at = t,
                   !.ended_at = t + s.session_ttl_seconds]
    ELSE s

JoinResp(tok, code, detail, pid, role, active) ==
    [NoResp EXCEPT !.op = "join", !.token = tok, !.code = code, !.detail = detail,
                   !.participant_id = pid, !.role = role, !.session_active = active]

(* the participant ids a client can know, and one it cannot *)
UnknownPid == <<0, 0>>
AllPids == UNION {{sessions[t].participants[k].id : k \in 1..Len(sessions[t].participants)} :
                 t \in 1..Len(sessions)}

Shared == SharedTokens \cap (1..Len(sessions))

(* _get_session_by_token: a token no session carries is answered 404 *)
UnknownToken == 0
TokenFound(tok) == tok \in 1..Len(sessions)

(* line 598: the request names the seat it reclaims *)
ExplicitReclaimIfKnown(s, participant_id) ==
    participant_id # NoPid /\ HasParticipant(s, participant_id)

ExplicitReclaim(s, participant_id) == participant_id # NoPid

(* join_session as a function of the loaded row and the request: the row   *)
(* it commits, the response, and the seat a join without participant_id    *)
(* was given (NoPid otherwise)                                             *)
join(row, tok, ip, client_identity, participant_id, t) ==
    LET s == ensure_session_state(row, t)
        ps == s.participants
        e == ExistingParticipant(ps, ip, client_identity)
        role == NewRole(ps)
    IN IF s.status \in Terminal
       THEN \* HTTPException: the transaction is rolled back
            [session |-> row, seat |-> NoPid,
             resp |-> JoinResp(tok, 410, GoneDetail(s.status), NoPid, "", FALSE)]
       ELSE IF ExplicitReclaim(s, participant_id)
       THEN IF ~HasParticipant(s, participant_id)
            THEN [session |-> row, seat |-> NoPid,
                  resp |-> JoinResp(tok, 404,
                               "Participant record not found for this session.",
                               NoPid, "", FALSE)]
            ELSE LET k == IndexOf(s, participant_id)
                 IN [session |-> [s EXCEPT !.participants[k] =
                                     Reclaimed(ps[k], ip, client_identity)],
                     seat |-> NoPid,
                     resp |-> JoinResp(tok, 200, "", ps[k].id, ps[k].role,
                                       s.status = ACTIVE)]
       ELSE IF e # 0
       THEN [session |-> [s EXCEPT !.participants[e] =
                             Reclaimed(ps[e], ip, client_identity)],
             seat |-> ps[e].id,
             resp |-> JoinResp(tok, 200, "", ps[e].id, ps[e].role, s.status = ACTIVE)]
       ELSE IF SeatsFull(ps)
       THEN [session |-> row, seat |-> NoPid,
             resp |-> JoinResp(tok, 409, "Session already has two participants.",
                               NoPid, "", FALSE)]
       ELSE LET created == Activated([s EXCEPT !.participants = Append(ps,
                                         [id |-> <<tok, Len(ps) + 1>>,
                                          role |-> role,
                                          ip_address |-> ip,
                                          client_identity |-> client_identity,
                                          joined_at |-> t])],
                                     role, t)
            IN [session |-> created, seat |-> <<tok, Len(ps) + 1>>,
                resp |-> JoinResp(tok, 200, "", <<tok, Len(ps) + 1>>, role,
                                  created.status = ACTIVE)]

JoinIPs == IPs
JoinIdentities == Identities \cup {None}
JoinPids == AllPids \cup {UnknownPid, NoPid}

(* POST /api/sessions/join, called from the addresses ips *)
JoinSession(ips) ==
    \E tok \in Shared \cup {UnknownToken}, ip \in ips,
       client_identity \in JoinIdentities, participant_id \in JoinPids :
        IF ~TokenFound(tok)
        THEN /\ resp' = JoinResp(tok, 404, "Token not found in database.", NoPid, "", FALSE)
             /\ UNCHANGED <<now, settings, sessions, logs, reports, loops, hub, hist, inflight, lock, casts>>
        ELSE LET out == join(sessions[tok], tok, ip, client_identity, participant_id, now)
             IN /\ sessions' = [sessions EXCEPT ![tok] = out.session]
                /\ resp' = out.resp
                /\ hist' = IF out.seat # NoPid
                            THEN NoteJoined(tok, RejoinKey(ip, client_identity), out.seat)
                            ELSE hist
                /\ UNCHANGED <<now, settings, logs, reports, loops, hub, inflight, lock, casts>>

(* join_session run by concurrent workers, each with its own database      *)
(* session and no lock on the row: inflight holds the requests that have   *)
(* loaded the session and its participants (lines 583-584) and have not    *)
(* committed yet                                                           *)
join_load ==
    \E tok \in Shared, ip \in JoinIPs :
        LET rid == CHOOSE n \in 1..MaxJoiners : \A r \in inflight : r.rid # n
        IN /\ Cardinality(inflight) < MaxJoiners
           /\ inflight' = inflight \cup
                  {[rid |-> rid, token |-> tok, ip |-> ip, row |-> sessions[tok]]}
           /\ resp' = [NoResp EXCEPT !.op = "join_load", !.token = tok]
           /\ UNCHANGED <<now, settings, sessions, logs, reports, loops, hub, hist,
                            lock, casts>>

(* db.commit, lines 676, 699: the unit of work inserts the participant the *)
(* request created, updates the participant it changed, and updates the    *)
(* columns of the session row the request assigned; stored is the row as   *)
(* the database holds it at that time                                      *)
Flush(stored, loaded, committed, tok) ==
    LET n == Len(committed.participants)
        added == n > Len(loaded.participants)
        fresh == [committed.participants[n] EXCEPT
                     !.id = <<tok, Len(stored.participants) + 1>>]
        changed(k) == \E j \in 1..Len(loaded.participants) :
                         /\ loaded.participants[j].id = stored.participants[k].id
                         /\ committed.participants[j] # loaded.participants[j]
        ps == IF added
              THEN Append(stored.participants, fresh)
              ELSE [k \in 1..Len(stored.participants) |->
                       IF changed(k)
                       THEN committed.participants[
                                CHOOSE j \in 1..Len(loaded.participants) :
                                    loaded.participants[j].id = stored.participants[k].id]
                       ELSE stored.participants[k]]
    IN [stored EXCEPT
           !.participants = ps,
           !.status = IF committed.status # loaded.status THEN committed.status ELSE @,
           !.started_at = IF committed.started_at # loaded.started_at
                          THEN committed.started_at ELSE @,
           !.ended_at = IF committed.ended_at # loaded.ended_at
                        THEN committed.ended_at ELSE @]

join_commit ==
    \E r \in inflight :
        LET out == join(r.row, r.token, r.ip, None, NoPid, now)
            stored == Flush(sessions[r.token], r.row, out.session, r.token)
            added == Len(stored.participants) > Len(sessions[r.token].participants)
        IN /\ sessions' = [sessions EXCEPT ![r.token] = stored]
           /\ inflight' = inflight \ {r}
           /\ resp' = IF added
                      THEN [out.resp EXCEPT !.participant_id =
                               stored.participants[Len(stored.participants)].id]
                      ELSE out.resp
           /\ UNCHANGED <<now, settings, logs, reports, loops, hub, hist, lock, casts>>

(* any caller *)
join_session == JoinSession(JoinIPs)

(* callers behind one address *)
join_session_local == JoinSession(LocalIPs)

----------------------------------------------------------------------------
(* serialize_session: the status a SessionStatusResponse carries *)
serialize_session(s, t) == ensure_session_state(s, t).status

StatusResp(op, tok, st) ==
    [NoResp EXCEPT !.op = op, !.token = tok, !.code = 200, !.status = st]

(* broadcast_status: recomputes and commits the status, then sends it *)
broadcast_status(tok, s, t) == StatusResp("broadcast", tok, serialize_session(s, t))

(* GET /api/sessions/{token}/status *)
session_status ==
    \E tok \in Shared :
        LET s == ensure_session_state(sessions[tok], now)
        IN /\ sessions' = [sessions EXCEPT ![tok] = s]
           /\ resp' = StatusResp("status", tok, serialize_session(s, now))
           /\ UNCHANGED <<now, settings, logs, reports, loops, hub, hist, inflight, lock, casts>>

(* delete_session, lines 828-836 *)
DeletedAgain(s, t) ==
    [s EXCEPT !.started_at = IF s.started_at = NoTime THEN t ELSE s.started_at,
              !.ended_at = t,
              !.status = DELETED]

Deleted(s, t) ==
    IF s.status # DELETED
    THEN [s EXCEPT !.started_at = IF s.started_at = NoTime THEN t ELSE s.started_at,
                   !.ended_at = t,
                   !.status = DELETED]
    ELSE s

(* DELETE /api/sessions/{token} *)
delete_session ==
    \E tok \in Shared :
        LET s == Deleted(ensure_session_state(sessions[tok], now), now)
        IN /\ sessions' = [sessions EXCEPT ![tok] = s]
           /\ resp' = StatusResp("delete", tok, serialize_session(s, now))
           /\ hist' = NoteDeleted(tok, s)
           /\ UNCHANGED <<now, settings, logs, reports, loops, hub, inflight, lock, casts>>

(* _collect_remote_participants, lines 440-458: the snapshot kept of one   *)
(* participant, and the list of them for everybody but the reporter        *)
Snapshot(p) ==
    [participant_id |-> p.id,
     role |-> p.role,
     ip_address |-> p.ip_address,
     client_identity |-> p.client_identity,
     joined_at |-> p.joined_at]

SnapshotOf(ps) == [i \in 1..Len(ps) |-> Snapshot(ps[i])]

_collect_every_participant(ps, reporter_id) == SnapshotOf(ps)

_collect_remote_participants(ps, reporter_id) ==
    SnapshotOf(SelectSeq(ps, LAMBDA p : ~(reporter_id # NoPid /\ p.id = reporter_id)))

(* report_abuse, lines 735-738: the reporter the report is attributed to *)
ValidatedReporterTrusting(s, participant_id) == participant_id

ValidatedReporter(s, participant_id) ==
    IF participant_id # NoPid /\ ~HasParticipant(s, participant_id)
    THEN NoPid ELSE participant_id

(* report_abuse, lines 757-763 *)
TerminatedStatusKept(s, t) ==
    IF s.status \notin Terminal
    THEN [s EXCEPT !.started_at = IF s.started_at = NoTime THEN t ELSE s.started_at,
                   !.ended_at = t]
    ELSE s

Terminated(s, t) ==
    IF s.status \notin Terminal
    THEN [s EXCEPT !.started_at = IF s.started_at = NoTime THEN t ELSE s.started_at,
                   !.ended_at = t,
                   !.status = DELETED]
    ELSE s

(* The body of a report: reporter_email, summary, questionnaire *)
ReportBody == [reporter_email |-> "reporter@example.org",
               summary |-> "summary of the abuse",
               questionnaire |-> "answers"]

(* send_email, email_utils.py lines 40-88: without a host it raises; with   *)
(* one, the transport sends the message, fails with an error the function  *)
(* catches and logs, or fails with one it does not catch                   *)
MailOutcomes == {"sent", "logged", "raised"}

send_email(cfg, outcome) == IF ~Truthy(cfg.smtp_host) THEN "raised" ELSE outcome

(* lines 765-808: the mails report_abuse hands to BackgroundTasks *)
Scheduled(cfg) ==
    IF Truthy(cfg.smtp_host)
    THEN <<"acknowledgement">>
         \o (IF Truthy(cfg.abuse_notifications_email)
             THEN <<"notification">> ELSE <<>>)
    ELSE <<>>

(* BackgroundTasks runs its tasks in turn; one that raises ends the run *)
RECURSIVE RunMails(_, _, _)
RunMails(cfg, tasks, outcomes) ==
    IF tasks = <<>> THEN <<>>
    ELSE LET done == send_email(cfg, outcomes[Head(tasks)])
         IN <<[kind |-> Head(tasks), outcome |-> done]>>
            \o (IF done = "raised" THEN <<>>
                ELSE RunMails(cfg, Tail(tasks), outcomes))

MailRaised(mails) == \E i \in 1..Len(mails) : mails[i].outcome = "raised"

(* The order of report_abuse: the commit (line 763), the response (lines   *)
(* 813-817), and the mails, which run as background tasks once the         *)
(* response is produced                                                    *)
ReportStepsMailFirst == <<"mail", "commit", "respond">>

ReportSteps == <<"commit", "respond", "mail">>

Position(steps, x) == CHOOSE i \in 1..Len(steps) : steps[i] = x

(* a step is reached unless the mails run before it and raise *)
Reached(x, mails) ==
    MailRaised(mails) => Position(ReportSteps, x) < Position(ReportSteps, "mail")

(* POST /api/sessions/{token}/report-abuse, lines 724-817 *)
ReportAbuse(reporters, results) ==
    \E tok \in Shared, participant_id \in reporters, ip \in LocalIPs,
       ack \in results, note \in results :
        LET loaded == ensure_session_state(sessions[tok], now)
            reporter_id == ValidatedReporter(loaded, participant_id)
            s == Terminated(loaded, now)
            mails == RunMails(settings, Scheduled(settings),
                              [acknowledgement |-> ack, notification |-> note])
            report == [id |-> Len(reports) + 1,
                       session_token |-> tok,
                       reporter_email |-> ReportBody.reporter_email,
                       reporter_ip |-> ip,
                       participant_id |-> reporter_id,
                       remote_participants |->
                           _collect_remote_participants(loaded.participants, reporter_id),
                       summary |-> ReportBody.summary,
                       questionnaire |-> ReportBody.questionnaire,
                       status |-> "open",
                       escalation_step |-> None,
                       admin_notes |-> None]
        IN /\ Len(reports) < MaxReports
           /\ IF Reached("commit", mails)
              THEN /\ reports' = Append(reports, report)
                   /\ sessions' = [sessions EXCEPT ![tok] = s]
                   /\ hist' = NoteDeleted(tok, s)
              ELSE UNCHANGED <<reports, sessions, hist>>
           /\ resp' = IF Reached("respond", mails)
                      THEN [StatusResp("report", tok, s.status) EXCEPT
                               !.detail = report.status,
                               !.report_id = report.id,
                               !.participant_id = participant_id,
                               !.mail = mails]
                      ELSE [NoResp EXCEPT !.op = "report", !.token = tok,
                                          !.participant_id = participant_id,
                                          !.code = 500, !.mail = mails]
           /\ UNCHANGED <<now, settings, logs, loops, hub, inflight, lock, casts>>

Reporters == AllPids \cup {UnknownPid, NoPid}

report_abuse == ReportAbuse(Reporters, {"sent"})

report_abuse_unattributed == ReportAbuse({NoPid}, {"sent"})

report_abuse_mailing == ReportAbuse({NoPid}, MailOutcomes)

(* models.AbuseReportStatus, lines 71-74, the statuses a request may name  *)
(* (a value outside the enumeration fails validation of the request body, *)
(* schemas.py line 222), and the texts an administrator                    *)
(* sends: absent, padded and plain                                         *)
AbuseReportStatus == {"open", "acknowledged", "closed"}
TriageStatuses == {"open", "acknowledged", "investigating", "closed"}
UpdateStatuses == {None, "closed"}
UpdateSteps == {None, "call "}
UpdateNotes == {None, "note"}
UnknownReport == 0

(* str.strip on the texts above *)
strip(value) ==
    IF value = " " THEN ""
    ELSE IF value = "call " THEN "call"
    ELSE value

(* _normalize_optional_text, lines 397-401 *)
_normalize_optional_text(value) ==
    IF value = None THEN None
    ELSE IF strip(value) = "" THEN None
    ELSE strip(value)

(* lines 999-1014: the fields of the report after the updates are applied *)
AppliedAlways(report, updates) ==
    [report EXCEPT !.status = IF updates.status = None THEN "open" ELSE updates.status,
                   !.escalation_step = _normalize_optional_text(updates.escalation_step),
                   !.admin_notes = _normalize_optional_text(updates.admin_notes)]

Applied(report, updates) ==
    [report EXCEPT !.status = IF updates.status # None THEN updates.status ELSE @,
                   !.escalation_step =
                       IF updates.escalation_step # None
                       THEN _normalize_optional_text(updates.escalation_step) ELSE @,
                   !.admin_notes =
                       IF updates.admin_notes # None
                       THEN _normalize_optional_text(updates.admin_notes) ELSE @]

(* line 984-988 *)
NothingProvidedOnlyStatus(updates) == updates.status = None

NothingProvided(updates) ==
    /\ updates.status = None
    /\ updates.escalation_step = None
    /\ updates.admin_notes = None

ReportFound(report_id) == report_id \in 1..Len(reports)

AdminResp(code, detail, updates) ==
    [NoResp EXCEPT !.op = "update_report", !.code = code, !.detail = detail,
                   !.request = updates]

(* schemas.AdminUpdateAbuseReportRequest.status: Optional[AbuseReportStatus] *)
ValidStatus(st) == st = None \/ st \in AbuseReportStatus

(* PATCH /api/admin/reports/{report_id}, lines 977-1023 *)
UpdateAdminReport(statuses, steps, texts) ==
    \E report_id \in 1..MaxReports \cup {UnknownReport}, st \in statuses,
       step \in steps, notes \in texts :
        LET updates == [report_id |-> report_id, status |-> st,
                        escalation_step |-> step, admin_notes |-> notes]
        IN /\ IF ~ValidStatus(st)
              THEN /\ resp' = AdminResp(422, "Input should be 'open', 'acknowledged' or 'closed'",
                                        updates)
                   /\ UNCHANGED reports
              ELSE IF NothingProvided(updates)
              THEN /\ resp' = AdminResp(400,
                          "At least one field must be provided to update the report.",
                          updates)
                   /\ UNCHANGED reports
              ELSE IF ~ReportFound(report_id)
              THEN /\ resp' = AdminResp(404, "Abuse report not found.", updates)
                   /\ UNCHANGED reports
              ELSE /\ reports' = [reports EXCEPT ![report_id] = Applied(@, updates)]
                   /\ resp' = [AdminResp(200, "", updates) EXCEPT
                                  !.status = reports'[report_id].status]
           /\ UNCHANGED <<now, settings, sessions, logs, loops, hub, hist, inflight, lock, casts>>

update_admin_report == UpdateAdminReport(UpdateStatuses, UpdateSteps, UpdateNotes)

update_report_status == UpdateAdminReport(TriageStatuses, {None}, {None})

(* POST /api/admin/rate-limits/reset, lines 917-941: the rows the reset     *)
(* deletes and the rows it keeps                                           *)
ResetHit(r, identifier_type, identifier, t) ==
    /\ r.created_at >= t - HourSeconds
    /\ IF identifier_type = "client_identity"
       THEN r.client_identity = identifier
       ELSE r.client_identity = None /\ r.ip_address = identifier

ResetTargets == ({"client_identity"} \X Identities) \cup ({"ip_address"} \X IPs)

reset_admin_rate_limit ==
    \E target \in ResetTargets :
        LET kept == SelectSeq(logs, LAMBDA r : ~ResetHit(r, target[1], target[2], now))
        IN /\ logs' = kept
           /\ resp' = [NoResp EXCEPT !.op = "reset", !.code = 200,
                          !.request = [identifier_type |-> target[1],
                                       identifier |-> target[2],
                                       removed_entries |-> Len(logs) - Len(kept)]]
           /\ UNCHANGED <<now, settings, sessions, reports, loops, hub, hist, inflight, lock, casts>>

(* _collect_rate_limit_locks, lines 461-518: one lock for every client     *)
(* identity, and for every address among the rows written without an       *)
(* identity, whose rows of the trailing hour reach the threshold           *)
IdentityRows(rows, identity, t) ==
    {i \in 1..Len(rows) : /\ rows[i].client_identity # None
                          /\ rows[i].created_at >= t - HourSeconds
                          /\ rows[i].client_identity = identity}

IpRows(rows, ip_address, t) ==
    {i \in 1..Len(rows) : /\ rows[i].client_identity = None
                          /\ rows[i].created_at >= t - HourSeconds
                          /\ rows[i].ip_address = ip_address}

AdminRateLimitLock(identifier_type, identifier, rows, group) ==
    [identifier_type |-> identifier_type, identifier |-> identifier,
     request_count |-> Cardinality(group), window_seconds |-> HourSeconds,
     last_request_at |-> CHOOSE m \in {rows[i].created_at : i \in group} :
                            \A i \in group : rows[i].created_at <= m]

_collect_rate_limit_locks(rows, t, threshold) ==
    LET identities == {rows[i].client_identity : i \in 1..Len(rows)} \ {None}
        addresses == {rows[i].ip_address : i \in 1..Len(rows)}
        found ==
            {AdminRateLimitLock("client_identity", identity, rows,
                                IdentityRows(rows, identity, t)) :
                identity \in {x \in identities :
                                 /\ IdentityRows(rows, x, t) # {}
                                 /\ Cardinality(IdentityRows(rows, x, t)) >= threshold
                                 /\ Truthy(x)}}
            \cup
            {AdminRateLimitLock("ip_address", ip_address, rows,
                                IpRows(rows, ip_address, t)) :
                ip_address \in {x \in addresses :
                                   /\ IpRows(rows, x, t) # {}
                                   /\ Cardinality(IpRows(rows, x, t)) >= threshold
                                   /\ Truthy(x)}}
    IN {locks \in [1..Cardinality(found) -> found] :
           /\ \A i, j \in DOMAIN locks : i # j => locks[i] # locks[j]
           /\ \A i, j \in DOMAIN locks :
                 i < j => locks[i].last_request_at >= locks[j].last_request_at}

(* GET /api/admin/rate-limits, lines 908-914 *)
list_admin_rate_limits ==
    \E locks \in _collect_rate_limit_locks(logs, now,
                                           settings.token_rate_limit_per_hour) :
        /\ resp' = [NoResp EXCEPT !.op = "rate_limits", !.code = 200,
                                  !.request = [locks |-> locks]]
        /\ UNCHANGED <<now, settings, sessions, logs, reports, loops, hub, hist,
                       inflight, lock, casts>>

----------------------------------------------------------------------------
(* ConnectionManager.  hub holds <<token, participant id, handle>> for     *)
(* every entry of _connections[token][participant_id].                     *)

(* connect, line 112 *)
connectKeepingEarlier(reg, tok, pid, h) == reg \cup {<<tok, pid, h>>}

connect(reg, tok, pid, h) ==
    {e \in reg : ~(e[1] = tok /\ e[2] = pid)} \cup {<<tok, pid, h>>}

(* disconnect, lines 114-121 *)
disconnect(reg, tok, pid) == {e \in reg : ~(e[1] = tok /\ e[2] = pid)}

(* broadcast, lines 123-137, and send, lines 139-143: the deliveries made *)
broadcast(reg, tok, message, exclude) ==
    {[to |-> e[3], message |-> message] :
        e \in {x \in reg : x[1] = tok /\ x[2] \notin exclude}}

send(reg, tok, pid, message) ==
    {[to |-> e[3], message |-> message] :
        e \in {x \in reg : x[1] = tok /\ x[2] = pid}}

(* Outbound messages *)
ErrorMessage(text) ==
    [type |-> "error", message |-> text, signalType |-> None, payload |-> None,
     sender |-> NoPid, connected_participants |-> {}]

SignalMessage(signal_type, payload, pid) ==
    [type |-> "signal", message |-> None, signalType |-> signal_type,
     payload |-> payload, sender |-> pid, connected_participants |-> {}]

(* lines 1125-1132 and 1148: the event a loop broadcasts when it ends the  *)
(* session or finds it ended                                               *)
EventMessage(type) ==
    [type |-> type, message |-> None, signalType |-> None, payload |-> None,
     sender |-> NoPid, connected_participants |-> {}]

TerminalEvent(st) ==
    IF st = EXPIRED THEN "session_expired"
    ELSE IF st = DELETED THEN "session_deleted"
    ELSE "session_closed"

(* connected_participants, lines 145-147 *)
connected_participants(reg, tok) == {e[2] : e \in {x \in reg : x[1] = tok}}

(* broadcast_status, lines 1062-1076: the status snapshot (payload: the    *)
(* status of the serialized session) with the participants registered on   *)
(* the token, sent to every connection registered on it                    *)
StatusMessage(st, connected) ==
    [type |-> "status", message |-> None, signalType |-> None, payload |-> st,
     sender |-> NoPid, connected_participants |-> connected]

StatusDeliveries(reg, tok, s, t) ==
    broadcast(reg, tok,
              StatusMessage(serialize_session(s, t), connected_participants(reg, tok)),
              {})

(* send_error, lines 1079-1080 *)
send_error(reg, tok, pid, text) == send(reg, tok, pid, ErrorMessage(text))

(* Inbound texts: one that is not JSON, a JSON value that is not an object, *)
(* and JSON objects                                                        *)
InvalidJson == [json |-> "invalid", type |-> None, signalType |-> None, payload |-> None]
NonObject == [json |-> "value", type |-> None, signalType |-> None, payload |-> None]
Unsupported == [json |-> "object", type |-> "chat", signalType |-> None, payload |-> "hi"]
SignalNoType == [json |-> "object", type |-> "signal", signalType |-> None, payload |-> "sdp"]
Signal == [json |-> "object", type |-> "signal", signalType |-> "offer", payload |-> "sdp"]
Inbound == {InvalidJson, NonObject, Unsupported, SignalNoType, Signal}

(* lines 1153-1176: what the loop does with an inbound text; raised: an    *)
(* exception no handler of the loop catches (payload.get on a value that   *)
(* is not a dict raises AttributeError)                                    *)
on_message(reg, tok, pid, m) ==
    IF m.json = "invalid"
    THEN [raised |-> FALSE,
          deliveries |-> send_error(reg, tok, pid, "Invalid payload format.")]
    ELSE IF m.json # "object"
    THEN [raised |-> TRUE, deliveries |-> {}]
    ELSE IF m.type = "signal"
    THEN IF ~Truthy(m.signalType)
         THEN [raised |-> FALSE,
               deliveries |-> send_error(reg, tok, pid, "signalType is required.")]
         ELSE [raised |-> FALSE,
               deliveries |-> broadcast(reg, tok,
                                  SignalMessage(m.signalType, m.payload, pid), {pid})]
    ELSE [raised |-> FALSE,
          deliveries |-> send_error(reg, tok, pid, "Unsupported message type.")]

----------------------------------------------------------------------------
(* websocket_session.  loops maps the handle of every accepted connection  *)
(* whose loop is running to the participant it serves and the instant its  *)
(* wait times out (NoTime: it waits without a timeout).                    *)

(* lines 1133-1135: the wait computed at the top of the loop *)
Timeout(s, t) ==
    IF s.status = ACTIVE /\ s.ended_at # NoTime
    THEN (IF s.ended_at > t THEN s.ended_at ELSE t)
    ELSE NoTime

(* lines 1178-1180: the loop of connection h on token tok exits; dl: what  *)
(* the step delivered before;                                              *)
(* why: the way the loop was left ("terminal": line 1132, "timeout": line  *)
(* 1149, "disconnect": line 1151, "error": an exception nothing catches)   *)
AnnouncedBeforeLeaving(reg, tok, pid) == reg

(* lines 1179-1180: the registry the closing status broadcast reads *)
Announced(reg, tok, pid) == disconnect(reg, tok, pid)

LoopExit(h, tok, pid, reg, s, dl, why) ==
    /\ loops' = [c \in DOMAIN loops \ {h} |-> loops[c]]
    /\ hub' = disconnect(reg, tok, pid)
    /\ sessions' = [sessions EXCEPT ![tok] = ensure_session_state(s, now)]
    /\ resp' = [broadcast_status(tok, s, now) EXCEPT
                   !.deliveries = dl \cup StatusDeliveries(Announced(reg, tok, pid),
                                                           tok, s, now),
                   !.detail = why]

(* lines 1116-1135: the top of the loop, up to the wait; the row it loads   *)
(* is read in a transaction of its own that is never committed             *)
LoopTop(h, tok, pid, reg, sent) ==
    LET s == ensure_session_state(sessions[tok], now)
    IN IF s.status \in Terminal
       THEN LoopExit(h, tok, pid, reg, sessions[tok],
                     sent.deliveries
                        \cup broadcast(reg, tok,
                                       EventMessage(TerminalEvent(s.status)), {}),
                     "terminal")
       ELSE /\ loops' = [c \in DOMAIN loops \cup {h} |->
                            IF c = h THEN [participant_id |-> pid,
                                           timeout |-> Timeout(s, now)]
                            ELSE loops[c]]
            /\ hub' = reg
            /\ resp' = sent
            /\ UNCHANGED sessions

(* the handle of a new connection: the participant it was opened for and  *)
(* the first ordinal no running connection of that participant has         *)
NewHandle(pid, limit) ==
    LET free == {k \in 1..limit : <<pid, k>> \notin DOMAIN loops}
    IN <<pid, CHOOSE k \in free : \A j \in free : k <= j>>

(* lines 1085-1106: the checks made before a connection is registered: a  *)
(* participantId is given, the token exists, the recomputed session is not *)
(* terminal, and the participant belongs to the session                    *)
AcceptsAnyParticipant(tok, pid) ==
    /\ pid # NoPid
    /\ TokenFound(tok)
    /\ ensure_session_state(sessions[tok], now).status \notin Terminal

Accepts(tok, pid) ==
    /\ pid # NoPid
    /\ TokenFound(tok)
    /\ ensure_session_state(sessions[tok], now).status \notin Terminal
    /\ HasParticipant(sessions[tok], pid)

(* the callers of the websocket endpoint: the participants of the shared   *)
(* sessions and, where strangers is set, callers with an unknown token, an *)
(* unknown participantId or none                                           *)
Callers(strangers) ==
    IF strangers
    THEN (Shared \cup {UnknownToken}) \X (AllPids \cup {UnknownPid, NoPid})
    ELSE Shared \X AllPids

(* lines 1083-1135: a connection is refused (close code 1008; the row it   *)
(* loaded is never committed), or it is accepted, registered and announced *)
(* by broadcast_status, and its loop starts to wait; at most limit loops    *)
(* run, and a participant whose connection is open opens another only if   *)
(* again                                                                   *)
Connect(limit, again, strangers) ==
    \E caller \in Callers(strangers) :
        LET tok == caller[1]
            pid == caller[2]
        IN IF ~Accepts(tok, pid)
           THEN /\ resp' = [NoResp EXCEPT !.op = "ws_refused", !.token = tok,
                                          !.participant_id = pid, !.code = 1008]
                /\ UNCHANGED <<now, settings, sessions, logs, reports, loops, hub,
                               hist, inflight, lock, casts>>
           ELSE LET s == ensure_session_state(sessions[tok], now)
                    h == NewHandle(pid, limit)
                IN /\ Cardinality(DOMAIN loops) < limit
                   /\ lock = Free
                   /\ again \/ \A c \in DOMAIN loops : loops[c].participant_id # pid
                   /\ LoopTop(h, tok, pid, connect(hub, tok, pid, h),
                              [broadcast_status(tok, s, now) EXCEPT
                                  !.deliveries =
                                      StatusDeliveries(connect(hub, tok, pid, h),
                                                       tok, s, now)])
                   /\ UNCHANGED <<now, settings, logs, reports, hist, inflight, lock, casts>>

ws_connect == Connect(MaxLoops, FALSE, FALSE)

ws_connect_again == Connect(MaxConns, TRUE, TRUE)

(* participants of the shared sessions, also over a connection they have  *)
ws_reconnect == Connect(MaxConns, TRUE, FALSE)

(* lines 1137-1139: the loop is suspended in its wait for a text, not in a *)
(* broadcast                                                               *)
Waiting(h) == h \notin DOMAIN casts

(* lines 1137-1176 and back to the top: a text arrives before the timeout *)
Receive(texts) ==
    \E h \in DOMAIN loops, m \in texts :
        LET pid == loops[h].participant_id
            tok == pid[1]
            out == on_message(hub, tok, pid, m)
        IN /\ loops[h].timeout = NoTime \/ now < loops[h].timeout
           /\ Waiting(h)
           /\ lock = Free
           /\ IF out.raised
              THEN LoopExit(h, tok, pid, hub, sessions[tok], out.deliveries, "error")
              ELSE LoopTop(h, pid[1], pid, hub,
                           [NoResp EXCEPT !.op = "message", !.token = tok,
                                          !.deliveries = out.deliveries])
           /\ UNCHANGED <<now, settings, logs, reports, hist, inflight, lock, casts>>

(* any text *)
ws_receive == Receive(Inbound)

(* well-formed signals only *)
ws_receive_signal == Receive({Signal})

(* lines 1140-1149: the wait times out *)
ws_timeout ==
    \E h \in DOMAIN loops :
        LET pid == loops[h].participant_id
            tok == pid[1]
            loaded == ensure_session_state(sessions[tok], now)
            s == [loaded EXCEPT !.status = CLOSED,
                                !.ended_at = IF loaded.ended_at # NoTime
                                             THEN loaded.ended_at ELSE now]
        IN /\ loops[h].timeout # NoTime
           /\ now >= loops[h].timeout
           /\ Waiting(h)
           /\ lock = Free
           /\ LoopExit(h, tok, pid, hub, s,
                       broadcast(hub, tok, EventMessage("session_closed"), {}),
                       "timeout")
           /\ UNCHANGED <<now, settings, logs, reports, hist, inflight, lock, casts>>

(* lines 1150-1151: the client disconnects *)
ws_disconnect ==
    \E h \in DOMAIN loops :
        LET pid == loops[h].participant_id
        IN /\ Waiting(h)
           /\ lock = Free
           /\ LoopExit(h, pid[1], pid, hub, sessions[pid[1]], {}, "disconnect")
           /\ UNCHANGED <<now, settings, logs, reports, hist, inflight, lock, casts>>

----------------------------------------------------------------------------
(* ConnectionManager.broadcast step by step, as the relay of a signal runs *)
(* it (lines 1160-1175): the recipients are copied under the lock, and     *)
(* each await of send_text is a suspension point at which the other loops  *)
(* run.                                                                    *)

(* lines 131-133: the holder of the lock once the with block is left *)
LockKeptWhileSending(h) == h

LockAfterSnapshot(h) == Free

(* lines 134-137: the deliveries a broadcast owes for the list it copied *)
Owed(websockets, message, skip) ==
    {[to |-> e[3], message |-> message] : e \in {x \in websockets : x[2] \notin skip}}

(* lines 1137-1175 and 130-133: a well-formed signal arrives and its relay *)
(* copies the recipients of the token; one relay runs at a time            *)
cast_snapshot ==
    \E h \in DOMAIN loops :
        LET pid == loops[h].participant_id
            tok == pid[1]
            websockets == {e \in hub : e[1] = tok}
        IN /\ Waiting(h)
           /\ loops[h].timeout = NoTime \/ now < loops[h].timeout
           /\ lock = Free
           /\ casts = << >>
           /\ casts' = [c \in DOMAIN casts \cup {h} |->
                           IF c = h
                           THEN [token |-> tok,
                                 message |-> SignalMessage(Signal.signalType,
                                                           Signal.payload, pid),
                                 skip |-> {pid},
                                 websockets |-> websockets,
                                 pending |-> websockets,
                                 delivered |-> {}]
                           ELSE casts[c]]
           /\ lock' = LockAfterSnapshot(h)
           /\ UNCHANGED <<now, settings, sessions, logs, reports, loops, hub, resp,
                          hist, inflight>>

(* lines 134-137: the next entry of the copied list is skipped or served  *)
Served(c, e) ==
    [c EXCEPT !.pending = @ \ {e},
              !.delivered = IF e[2] \in c.skip THEN @
                            ELSE @ \cup {[to |-> e[3], message |-> c.message]}]

cast_deliver ==
    \E h \in DOMAIN casts :
        \E e \in casts[h].pending :
            /\ casts' = [casts EXCEPT ![h] = Served(@, e)]
            /\ UNCHANGED <<now, settings, sessions, logs, reports, loops, hub, resp,
                           hist, inflight, lock>>

(* line 137 raises: the socket of a recipient has gone away; nothing in    *)
(* broadcast or in the loop catches it, and the loop of the sender exits   *)
cast_fail ==
    \E h \in DOMAIN casts :
        \E e \in casts[h].pending :
            LET pid == loops[h].participant_id
            IN /\ e[2] \notin casts[h].skip
               /\ casts' = [c \in DOMAIN casts \ {h} |-> casts[c]]
               /\ lock' = IF lock = h THEN Free ELSE lock
               /\ LoopExit(h, pid[1], pid, hub, sessions[pid[1]], casts[h].delivered, "error")
               /\ UNCHANGED <<now, settings, logs, reports, hist, inflight>>

(* broadcast returns and the loop is back at its top *)
cast_return ==
    \E h \in DOMAIN casts :
        LET pid == loops[h].participant_id
        IN /\ casts[h].pending = {}
           /\ casts' = [c \in DOMAIN casts \ {h} |-> casts[c]]
           /\ lock' = IF lock = h THEN Free ELSE lock
           /\ LoopTop(h, pid[1], pid, hub,
                      [NoResp EXCEPT !.op = "message", !.token = pid[1],
                                     !.deliveries = casts[h].delivered])
           /\ UNCHANGED <<now, settings, logs, reports, hist, inflight>>

(* any caller, one connection for each participant, up to MaxLoops *)
ws_connect_anyone == Connect(MaxLoops, FALSE, TRUE)

(* one connection for each participant, up to MaxConns *)
ws_connect_each == Connect(MaxConns, FALSE, FALSE)

Next ==
    \/ Tick
    \/ issue_token_anonymous
    \/ join_session_local
    \/ session_status
    \/ delete_session
    \/ report_abuse_unattributed
    \/ ws_connect
    \/ ws_receive_signal
    \/ ws_timeout
    \/ ws_disconnect

Spec == Init /\ [][Next]_vars

----------------------------------------------------------------------------
(* The seats of a session: the HTTP handlers, with joins from every        *)
(* address and identity                                                    *)

NextSeats ==
    \/ Tick
    \/ issue_token_anonymous
    \/ join_session
    \/ session_status
    \/ delete_session
    \/ report_abuse_unattributed

SpecSeats == Init /\ [][NextSeats]_vars

----------------------------------------------------------------------------
(* The rejoin protocol on its own: tokens are issued and joined, the clock *)
(* advances, and hist.joined records the seat each rejoin key was given    *)

NextRejoin ==
    \/ Tick
    \/ issue_token_anonymous
    \/ join_session

SpecRejoin == InitDb(TRUE) /\ [][NextRejoin]_vars

----------------------------------------------------------------------------
(* The connection hub: one session is issued and joined, connections are  *)
(* opened, also twice for one participant, texts of every kind arrive and  *)
(* connections are closed                                                  *)

NextHub ==
    \/ issue_token_anonymous
    \/ join_session_local
    \/ ws_connect_again
    \/ ws_receive
    \/ ws_disconnect

SpecHub == Init /\ [][NextHub]_vars

----------------------------------------------------------------------------
(* The end of the live window on open connections: one session is issued  *)
(* and joined, its participants connect, also twice, the clock advances    *)
(* and the loops time out or are left by their clients                     *)

NextClose ==
    \/ Tick
    \/ issue_token_anonymous
    \/ join_session_local
    \/ delete_session
    \/ ws_reconnect
    \/ ws_timeout
    \/ ws_disconnect

SpecClose == Init /\ [][NextClose]_vars

----------------------------------------------------------------------------
(* The ways out of a connection loop: participants connect,               *)
(* texts of every kind arrive, the session closes or is deleted, the waits *)
(* time out and clients leave                                              *)

NextExit ==
    \/ Tick
    \/ issue_token_anonymous
    \/ join_session_local
    \/ delete_session
    \/ ws_connect_each
    \/ ws_receive
    \/ ws_timeout
    \/ ws_disconnect

SpecExit == Init /\ [][NextExit]_vars

----------------------------------------------------------------------------
(* Connections left to themselves: participants connect and then neither   *)
(* send nor leave; the session is activated, deleted or reported, the       *)
(* clock advances and the waits time out.  Time passes, also up to the     *)
(* instant a pending wait is due, and the event loop runs a timeout handler *)
(* that is due (asyncio.wait_for), so these steps are taken whenever they   *)
(* stay possible                                                            *)

(* the clock reaches the instant at which a wait times out, lines 1134-1139 *)
Elapse ==
    /\ \E h \in DOMAIN loops : loops[h].timeout > now /\ now' = loops[h].timeout
    /\ resp' = NoResp
    /\ UNCHANGED <<settings, sessions, logs, reports, loops, hub, hist, inflight, lock, casts>>

NextLive ==
    \/ Tick
    \/ Elapse
    \/ issue_token_anonymous
    \/ join_session_local
    \/ delete_session
    \/ report_abuse_unattributed
    \/ ws_connect_each
    \/ ws_timeout

SpecLive ==
    Init /\ [][NextLive]_vars /\ WF_vars(Tick) /\ WF_vars(Elapse) /\ WF_vars(ws_timeout)

----------------------------------------------------------------------------
(* Admission to the hub: known and unknown callers ask for a connection on *)
(* a session that is joined, expires, closes or is deleted                 *)

NextAccept ==
    \/ Tick
    \/ issue_token_anonymous
    \/ join_session_local
    \/ delete_session
    \/ ws_connect_anyone
    \/ ws_disconnect

SpecAccept == Init /\ [][NextAccept]_vars

----------------------------------------------------------------------------
(* The relay of a signal while the registry changes: participants connect *)
(* and leave while a broadcast is between two deliveries                   *)

NextCast ==
    \/ issue_token_anonymous
    \/ join_session_local
    \/ ws_connect_each
    \/ ws_disconnect
    \/ cast_snapshot
    \/ cast_deliver
    \/ cast_return

SpecCast == Init /\ [][NextCast]_vars

(* The relay of a signal to a socket that may have gone away *)
NextFault ==
    \/ issue_token_anonymous
    \/ join_session_local
    \/ ws_connect_each
    \/ ws_disconnect
    \/ cast_snapshot
    \/ cast_deliver
    \/ cast_fail
    \/ cast_return

SpecFault == Init /\ [][NextFault]_vars

----------------------------------------------------------------------------
(* The rate limiter: tokens are issued from every address, with and        *)
(* without client identity, and the clock advances                         *)

(* The abuse reports and their administration *)
NextReports ==
    \/ issue_token_anonymous
    \/ join_session_local
    \/ delete_session
    \/ report_abuse
    \/ update_admin_report

SpecReports == Init /\ [][NextReports]_vars

(* The abuse reports with every configuration and outcome of the mail *)
InitMail == InitSettings(FALSE, SmtpHosts, NotificationAddresses)

NextMail ==
    \/ Tick
    \/ issue_token_anonymous
    \/ join_session_local
    \/ report_abuse_mailing

SpecMail == InitMail /\ [][NextMail]_vars

(* The triage status of the abuse reports *)
NextTriage ==
    \/ Tick
    \/ issue_token_anonymous
    \/ report_abuse_unattributed
    \/ update_report_status

SpecTriage == Init /\ [][NextTriage]_vars

(* Concurrent joins *)
NextJoinRace ==
    \/ issue_token_anonymous
    \/ join_load
    \/ join_commit

SpecJoinRace == Init /\ [][NextJoinRace]_vars

(* The rate limiter and its administrative reset *)
NextReset ==
    \/ Tick
    \/ issue_token
    \/ reset_admin_rate_limit
    \/ list_admin_rate_limits

SpecReset == Init /\ [][NextReset]_vars

NextIssue ==
    \/ Tick
    \/ issue_token

SpecIssue == Init /\ [][NextIssue]_vars

(* The request log and the sessions under every operation that commits:   *)
(* tokens are issued with any message limit under limits narrower than    *)
(* the request schema's, sessions are joined, deleted and reported, the    *)
(* log is listed and reset                                                 *)
NextLedger ==
    \/ issue_token_limited
    \/ join_session_local
    \/ delete_session
    \/ report_abuse_unattributed
    \/ reset_admin_rate_limit
    \/ list_admin_rate_limits

SpecLedger ==
    InitConfigured(FALSE, {None}, {None}, {<<500, 8000>>}) /\ [][NextLedger]_vars

----------------------------------------------------------------------------
(* Properties *)

Participants(tok) == sessions[tok].participants

Recomputed(tok) == ensure_session_state(sessions[tok], now)

(* a join without participant_id that matches no participant of ps *)
Unmatched(ps, ip, client_identity) ==
    IF Truthy(client_identity)
    THEN \A k \in 1..Len(ps) : ps[k].client_identity # client_identity
    ELSE \A k \in 1..Len(ps) : ps[k].ip_address # ip

(* C1 as stated: a session never has more than 2 participants, and a join *)
(* without participant_id that matches no participant of a session with 2  *)
(* participants fails with Conflict and adds no participant.               *)
C1_ThirdJoinConflict ==
    \A tok \in Shared :
        /\ Len(Participants(tok)) <= 2
        /\ \A ip \in JoinIPs, client_identity \in JoinIdentities :
              (Len(Participants(tok)) = 2 /\ Unmatched(Participants(tok), ip, client_identity))
              => LET out == join(sessions[tok], tok, ip, client_identity, NoPid, now)
                 IN /\ out.resp.code = 409
                    /\ out.session.participants = Participants(tok)

(* C1 amended: a session never has more than 2 participants; a join        *)
(* without participant_id that matches no participant of a session with 2  *)
(* participants adds no participant and fails with Conflict when the       *)
(* recomputed status is not terminal, and with Gone when it is.            *)
C1_ThirdJoinRefused ==
    \A tok \in Shared :
        /\ Len(Participants(tok)) <= 2
        /\ \A ip \in JoinIPs, client_identity \in JoinIdentities :
              (Len(Participants(tok)) = 2 /\ Unmatched(Participants(tok), ip, client_identity))
              => LET out == join(sessions[tok], tok, ip, client_identity, NoPid, now)
                 IN /\ out.resp.code = IF Recomputed(tok).status \in Terminal
                                       THEN 410 ELSE 409
                    /\ out.session.participants = Participants(tok)
        /\ (resp.op = "join" /\ resp.token = tok /\ resp.code = 409)
              => Len(Participants(tok)) = 2

C1_Witness ==
    /\ resp.op = "join"
    /\ resp.code = 409
    /\ resp.token \in Shared
    /\ Len(Participants(resp.token)) = 2
    /\ sessions[resp.token].status = ACTIVE

(* C2: in every session the first participant has role host and the second *)
(* guest, and no step removes a participant or changes the id or the role  *)
(* of an existing one.                                                     *)
C2_RolesFixed ==
    [][\A tok \in 1..Len(sessions') :
          LET after == sessions'[tok].participants
          IN \A k \in 1..Len(after) :
                /\ after[k].role = IF k = 1 THEN "host" ELSE "guest"
                /\ (tok <= Len(sessions) /\ k <= Len(Participants(tok)))
                      => /\ after[k].id = Participants(tok)[k].id
                         /\ after[k].role = Participants(tok)[k].role
      ]_vars

C2_Witness ==
    /\ resp.op = "join"
    /\ resp.code = 200
    /\ resp.token \in Shared
    /\ Len(Participants(resp.token)) = 2
    /\ resp.participant_id = Participants(resp.token)[1].id
    /\ resp.role = "host"
    /\ Participants(resp.token)[2].role = "guest"

(* C3 as stated: on a non-terminal session a join without participant_id   *)
(* made with the key (client identity, or address when there is none) of   *)
(* an earlier successful join returns the participant id and role of that  *)
(* earlier join and adds no seat.                                          *)
C3_RejoinSameSeat ==
    \A e \in hist.joined :
        LET tok == e[1]
            key == e[2]
            pid == e[3]
        IN Recomputed(tok).status \notin Terminal
           => \A ip \in JoinIPs, client_identity \in JoinIdentities :
                 RejoinKey(ip, client_identity) = key
                 => LET out == join(sessions[tok], tok, ip, client_identity, NoPid, now)
                    IN /\ out.resp.code = 200
                       /\ out.resp.participant_id = pid
                       /\ out.resp.role = Participants(tok)[IndexOf(sessions[tok], pid)].role
                       /\ Len(out.session.participants) = Len(Participants(tok))

(* C4: a status sent to a caller at the current instant (status read, join *)
(* response, delete response, report response, status broadcast) is never  *)
(* ISSUED after the claim deadline and never ACTIVE at or after the        *)
(* live-end time.                                                          *)
C4_StatusNotBehind ==
    (resp.op \in {"status", "join", "delete", "report", "broadcast"}
        /\ resp.token \in 1..Len(sessions))
    => LET s == sessions[resp.token]
       IN /\ resp.status = ISSUED => now <= s.validity_expires_at
          /\ (resp.status = ACTIVE \/ resp.session_active)
                => ~(s.ended_at # NoTime /\ now >= s.ended_at)

C4_Witness ==
    /\ resp.op = "status"
    /\ resp.status = EXPIRED
    /\ now > sessions[resp.token].validity_expires_at
    /\ sessions[resp.token].status = EXPIRED

(* C5 as stated: once the persisted status is CLOSED, EXPIRED or DELETED,  *)
(* no join, status read, delete or abuse report changes it.                *)
C5_TerminalFinal ==
    [][resp'.op \in {"join", "status", "delete", "report"}
          => \A tok \in 1..Len(sessions) :
                sessions[tok].status \in Terminal
                => sessions'[tok].status = sessions[tok].status
      ]_vars

C7_DeletedForGood ==
    \A tok \in hist.deleted :
        /\ (resp.op = "status" /\ resp.token = tok) => resp.status = DELETED
        /\ (resp.op = "join" /\ resp.token = tok)
              => resp.code = 410 /\ resp.detail = "Session has been deleted."

(* C8: the join that creates the second participant answers                *)
(* session_active = true and sets live_start_time = now and                *)
(* live_end_time = now + the configured live duration; whenever a session  *)
(* is ACTIVE, live_end_time - live_start_time is that duration (60 s per   *)
(* configured minute).                                                     *)
C8_LiveWindow ==
    [][\A tok \in 1..Len(sessions') :
          LET s == sessions'[tok]
          IN /\ s.status = ACTIVE
                   => /\ s.started_at # NoTime
                      /\ s.ended_at - s.started_at = s.session_ttl_seconds
                      /\ \E m \in TtlMinutes : s.ended_at - s.started_at = 60 * m
             /\ (tok <= Len(sessions) /\ Len(s.participants) = 2
                     /\ Len(Participants(tok)) = 1)
                   => /\ resp'.op = "join"
                      /\ resp'.session_active
                      /\ s.status = ACTIVE
                      /\ s.started_at = now
                      /\ s.ended_at = now + s.session_ttl_seconds
      ]_vars

C8_Witness ==
    /\ resp.op = "join"
    /\ resp.session_active
    /\ resp.role = "guest"
    /\ sessions[resp.token].status = ACTIVE
    /\ sessions[resp.token].started_at = now
    /\ sessions[resp.token].ended_at - sessions[resp.token].started_at = 1800

(* the rows of the trailing hour written by requests that resolved to the  *)
(* same identifier as a request with this address and identity             *)
OwnIssuances(ip, client_identity) ==
    {i \in 1..Len(logs) :
        /\ logs[i].created_at >= now - HourSeconds
        /\ IF Truthy(client_identity)
           THEN logs[i].client_identity = client_identity
           ELSE ~Truthy(logs[i].client_identity) /\ logs[i].ip_address = ip}

(* C9 as stated: for one resolved identifier (the client identity when     *)
(* supplied, otherwise the address) the first N issuances of a 60-minute   *)
(* window succeed and the next one is rejected: a request is rejected      *)
(* exactly when N issuances resolving to its identifier lie in the window. *)
C9_FirstNThenLimited ==
    \A ip \in IssuerIPs, client_identity \in Identities \cup {None} :
        enforce_rate_limit(logs, ip, client_identity, now,
                           settings.token_rate_limit_per_hour)
        <=> Cardinality(OwnIssuances(ip, client_identity))
               >= settings.token_rate_limit_per_hour

(* the log rows that carry the identifier of a request: its identity, or   *)
(* its address when it has none                                            *)
RowsOf(ip, client_identity) ==
    {i \in 1..Len(logs) :
        IF Truthy(client_identity)
        THEN logs[i].client_identity = client_identity
        ELSE logs[i].ip_address = ip}

RecentRowsOf(ip, client_identity) ==
    {i \in RowsOf(ip, client_identity) : now - logs[i].created_at <= HourSeconds}

C12_UnknownParticipantNotFound ==
    /\ \A tok \in Shared, ip \in JoinIPs, client_identity \in JoinIdentities,
          participant_id \in JoinPids \ {NoPid} :
            (Recomputed(tok).status \notin Terminal
                /\ ~HasParticipant(sessions[tok], participant_id))
            => LET out == join(sessions[tok], tok, ip, client_identity, participant_id, now)
               IN /\ out.resp.code = 404
                  /\ out.resp.detail = "Participant record not found for this session."
                  /\ out.resp.participant_id = NoPid
                  /\ out.session = sessions[tok]
    /\ (resp.op = "join" /\ ~TokenFound(resp.token))
          => /\ resp.code = 404
             /\ resp.detail = "Token not found in database."

(* the 404 is answered on a session that has a free seat and a participant *)
(* every identity-less request from the first address would match          *)
C12_Witness ==
    /\ resp.op = "join"
    /\ resp.code = 404
    /\ resp.detail = "Participant record not found for this session."
    /\ resp.token \in Shared
    /\ sessions[resp.token].status = ISSUED
    /\ Len(Participants(resp.token)) = 1
    /\ Participants(resp.token)[1].ip_address = "10.0.0.1"

(* the participant a running connection serves and its token *)
ServedBy(h) == loops[h].participant_id

OpenOn(tok) == {h \in DOMAIN loops : ServedBy(h)[1] = tok}

BadTexts == {InvalidJson, NonObject, Unsupported, SignalNoType}

(* C13 as stated: a text that is not a JSON object, has an unrecognised     *)
(* type or is a signal without signalType, arriving on a registered         *)
(* connection of a non-terminal session, is answered with exactly one error *)
(* message, delivered to that connection and to no other, and the loop      *)
(* goes on.                                                                 *)
C13_BadTextPrivateError ==
    \A h \in DOMAIN loops, m \in BadTexts :
        LET pid == ServedBy(h)
            tok == pid[1]
            out == on_message(hub, tok, pid, m)
        IN (<<tok, pid, h>> \in hub /\ Recomputed(tok).status \notin Terminal)
           => /\ ~out.raised
              /\ Cardinality(out.deliveries) = 1
              /\ \A d \in out.deliveries : d.to = h /\ d.message.type = "error"

(* C14 as stated: a well-formed signal arriving from participant p on token *)
(* t is delivered, with sender p and its signalType and payload, to a       *)
(* connection of every other participant that has a connection open on t,   *)
(* and to no connection of p and no connection of another token.            *)
C14_SignalReachesPeers ==
    \A h \in DOMAIN loops :
        LET p == ServedBy(h)
            tok == p[1]
            out == on_message(hub, tok, p, Signal)
        IN /\ \A c \in OpenOn(tok) :
                 ServedBy(c) # p
                 => \E d \in out.deliveries :
                       /\ d.to \in OpenOn(tok)
                       /\ ServedBy(d.to) = ServedBy(c)
                       /\ d.message = SignalMessage(Signal.signalType, Signal.payload, p)
           /\ \A d \in out.deliveries :
                 d.to \in OpenOn(tok) /\ ServedBy(d.to) # p

(* C19: the hub never holds two handles for one (token, participant id);    *)
(* when a connection is accepted, its handle is the only one send reaches   *)
(* for its participant and the only one of that participant a broadcast     *)
(* reaches.                                                                 *)
C19_OneHandlePerParticipant ==
    [][/\ \A e1 \in hub', e2 \in hub' :
              (e1[1] = e2[1] /\ e1[2] = e2[2]) => e1[3] = e2[3]
       /\ \A h \in DOMAIN loops' \ DOMAIN loops :
              LET pid == loops'[h].participant_id
                  tok == pid[1]
                  m == ErrorMessage("probe")
              IN /\ {d.to : d \in send(hub', tok, pid, m)} = {h}
                 /\ {d.to : d \in {x \in broadcast(hub', tok, m, {}) : x.to[1] = pid}} = {h}
      ]_vars

(* a participant has two connections open and the hub holds the later one *)
C19_Witness ==
    \E pid \in AllPids :
        /\ {<<pid, 1>>, <<pid, 2>>} \subseteq DOMAIN loops
        /\ {e \in hub : e[2] = pid} = {<<pid[1], pid, <<pid, 2>>>>}

C17_UpdateErrors ==
    [][resp'.op = "update_report"
          => LET request == resp'.request
                 none == /\ request.status = None
                         /\ request.escalation_step = None
                         /\ request.admin_notes = None
                 known == request.report_id \in {reports[i].id : i \in 1..Len(reports)}
             IN /\ none => /\ resp'.code = 400
                            /\ reports' = reports
                /\ ~none /\ ~known => /\ resp'.code = 404
                                      /\ reports' = reports
                /\ ~none /\ known => resp'.code = 200
      ]_vars

C17_Witness ==
    /\ resp.op = "update_report"
    /\ resp.code = 400
    /\ resp.request.report_id = UnknownReport
    /\ Len(reports) > 0
    /\ reports[1].status = "closed"

(* C18 as stated: right after an administrative reset for an identifier    *)
(* (a client identity, or an address), a token request resolving to that   *)
(* identifier is not rejected by the rate limiter.                         *)
C18_ResetUnblocks ==
    resp.op = "reset"
    => IF resp.request.identifier_type = "client_identity"
       THEN \A ip \in IssuerIPs :
               ~enforce_rate_limit(logs, ip, resp.request.identifier, now,
                                   settings.token_rate_limit_per_hour)
       ELSE ~enforce_rate_limit(logs, resp.request.identifier, None, now,
                                settings.token_rate_limit_per_hour)

(* C20: whatever the mail configuration and whatever becomes of the        *)
(* acknowledgement and of the moderation notification, a report_abuse      *)
(* request is answered 200 with the id of the report, that report is       *)
(* persisted with status open, and the session is terminal afterwards,     *)
(* DELETED when it was ISSUED or ACTIVE.                                   *)
C20_ReportDespiteMail ==
    [][resp'.op = "report"
          => LET tok == resp'.token
                 id == Len(reports) + 1
             IN /\ resp'.code = 200
                /\ resp'.report_id = id
                /\ Len(reports') = id
                /\ reports'[id].id = id
                /\ reports'[id].session_token = tok
                /\ reports'[id].status = "open"
                /\ sessions'[tok].status \in Terminal
                /\ Recomputed(tok).status \in {ISSUED, ACTIVE}
                      => sessions'[tok].status = DELETED
                /\ resp'.status = sessions'[tok].status
      ]_vars

C20_Witness ==
    /\ resp.op = "report"
    /\ resp.code = 200
    /\ Len(resp.mail) = 1
    /\ resp.mail[1].kind = "acknowledgement"
    /\ resp.mail[1].outcome = "raised"
    /\ Truthy(settings.abuse_notifications_email)
    /\ reports[resp.report_id].status = "open"
    /\ sessions[resp.token].status = DELETED
    /\ sessions[resp.token].ended_at = now

(* C21 as stated: the status of every abuse report is one of open,         *)
(* acknowledged, investigating and closed, a new report is open, and an    *)
(* update_report naming any of the four statuses for an existing report    *)
(* succeeds and leaves the report with that status, whatever its status    *)
(* was.                                                                    *)
C21_FourStatuses ==
    [][/\ \A i \in 1..Len(reports') : reports'[i].status \in TriageStatuses
       /\ Len(reports') > Len(reports) => reports'[Len(reports')].status = "open"
       /\ (/\ resp'.op = "update_report"
           /\ resp'.request.status \in TriageStatuses
           /\ resp'.request.report_id \in 1..Len(reports))
              => /\ resp'.code = 200
                 /\ reports'[resp'.request.report_id].status = resp'.request.status
      ]_vars

(* C22 as stated: whatever the interleaving of concurrent joins, a session *)
(* never has more than two participants, never two participants with the  *)
(* same role, and never two participants while it is ISSUED.               *)
C22_JoinAtomic ==
    \A tok \in 1..Len(sessions) :
        LET ps == sessions[tok].participants
        IN /\ Len(ps) <= 2
           /\ \A j, k \in 1..Len(ps) : j # k => ps[j].role # ps[k].role
           /\ Len(ps) = 2 => sessions[tok].status # ISSUED

(* C23 as stated: when the wait of a connection loop times out on a session *)
(* that a delete or an abuse report has made DELETED in the meantime, the   *)
(* persisted status is still DELETED afterwards and the live-end time is    *)
(* the one the delete or the report stored.                                 *)
C23_TimeoutKeepsDeleted ==
    [][\A h \in DOMAIN loops :
          LET tok == ServedBy(h)[1]
          IN (/\ loops[h].timeout # NoTime
              /\ now >= loops[h].timeout
              /\ h \notin DOMAIN loops'
              /\ sessions[tok].status = DELETED)
             => /\ sessions'[tok].status = DELETED
                /\ sessions'[tok].ended_at = sessions[tok].ended_at
      ]_vars

(* C24 as stated: once an operation that loaded a session has answered     *)
(* (status read, join, report, delete, status broadcast of a connection,   *)
(* refused connection), no lazy transition is still due on the persisted   *)
(* row: the status the operation recomputed is the persisted one, also     *)
(* when the join failed with Gone or the connection was refused.           *)
C24_RecomputedIsPersisted ==
    (resp.op \in {"status", "join", "report", "delete", "broadcast", "ws_refused"}
        /\ resp.token \in 1..Len(sessions))
    => Recomputed(resp.token).status = sessions[resp.token].status

(* C25: every join on a session whose recomputed status is EXPIRED, CLOSED *)
(* or DELETED, whatever participant id, identity and address it carries,   *)
(* is answered 410 with "Token expired.", "Session already closed." or     *)
(* "Session has been deleted." respectively, names no participant, and     *)
(* leaves the participants of the session as they were.                    *)
C25_TerminalJoinGone ==
    [][(/\ resp'.op = "join"
        /\ resp'.token \in 1..Len(sessions)
        /\ Recomputed(resp'.token).status \in Terminal)
          => LET tok == resp'.token
                 st == Recomputed(tok).status
             IN /\ resp'.code = 410
                /\ st = EXPIRED => resp'.detail = "Token expired."
                /\ st = CLOSED => resp'.detail = "Session already closed."
                /\ st = DELETED => resp'.detail = "Session has been deleted."
                /\ resp'.participant_id = NoPid
                /\ sessions'[tok].participants = sessions[tok].participants
      ]_vars

C25_Witness ==
    /\ resp.op = "join"
    /\ resp.code = 410
    /\ resp.detail = "Session has been deleted."
    /\ sessions[resp.token].status = DELETED
    /\ Len(Participants(resp.token)) = 2
    /\ Participants(resp.token)[1].ip_address # Participants(resp.token)[2].ip_address

(* a join that succeeded without adding a seat: a reclaim *)
ReclaimStep(tok) ==
    /\ resp'.op = "join"
    /\ resp'.code = 200
    /\ resp'.token = tok
    /\ Len(sessions'[tok].participants) = Len(Participants(tok))

(* a reclaim changes nothing but the address and the identity of the       *)
(* participant it names in its answer                                      *)
ReclaimFrame(tok) ==
    LET before == Participants(tok)
        after == sessions'[tok].participants
    IN /\ sessions'[tok].status = sessions[tok].status
       /\ sessions'[tok].started_at = sessions[tok].started_at
       /\ sessions'[tok].ended_at = sessions[tok].ended_at
       /\ \E k \in 1..Len(before) : before[k].id = resp'.participant_id
       /\ \A k \in 1..Len(before) :
             /\ after[k].id = before[k].id
             /\ after[k].role = before[k].role
             /\ after[k].joined_at = before[k].joined_at
             /\ before[k].id # resp'.participant_id => after[k] = before[k]
             /\ before[k].id = resp'.participant_id => resp'.role = before[k].role

(* an explicit reclaim of any seat of a non-terminal session succeeds, and *)
(* where it supplies an identity that fits unique, a join carrying that    *)
(* identity then resolves to the reclaimed seat                            *)
ReclaimResolves(tok, unique(_, _, _)) ==
    LET ps == Participants(tok)
    IN Recomputed(tok).status \notin Terminal
       => \A k \in 1..Len(ps), ip \in JoinIPs, client_identity \in JoinIdentities :
             LET out == join(sessions[tok], tok, ip, client_identity, ps[k].id, now)
             IN /\ out.resp.code = 200
                /\ out.resp.participant_id = ps[k].id
                /\ out.resp.role = ps[k].role
                /\ (Truthy(client_identity) /\ unique(ps, k, client_identity))
                      => \A other \in JoinIPs :
                            LET again == join(out.session, tok, other, client_identity,
                                              NoPid, now)
                            IN /\ again.resp.code = 200
                               /\ again.resp.participant_id = ps[k].id

NoEarlierHolder(ps, k, client_identity) ==
    \A j \in 1..(k - 1) : ps[j].client_identity # client_identity

AnyIdentity(ps, k, client_identity) == TRUE

(* C26 where no earlier-seated participant carries the identity supplied:   *)
(* a reclaim, explicit or by identity or address match,                     *)
(* changes only the address and the identity of the reclaimed participant, *)
(* never an id, a role, a join time, the number of participants, the       *)
(* status or the live-start and live-end times; an explicit reclaim        *)
(* succeeds on a full session; and after an explicit reclaim supplied an   *)
(* identity that no participant seated before the reclaimed one carries, a *)
(* join carrying that identity resolves to the reclaimed participant.      *)
C26_ReclaimFrame ==
    /\ [][\A tok \in 1..Len(sessions) : ReclaimStep(tok) => ReclaimFrame(tok)]_vars
    /\ [](\A tok \in 1..Len(sessions) : ReclaimResolves(tok, NoEarlierHolder))

(* C26 as stated: after an explicit reclaim supplied a new identity, a     *)
(* join carrying that identity resolves to the reclaimed participant,      *)
(* whatever the other participant carries.                                 *)
C26_ReclaimResolvesAlways ==
    \A tok \in 1..Len(sessions) : ReclaimResolves(tok, AnyIdentity)

C26_Witness ==
    /\ resp.op = "join"
    /\ resp.code = 200
    /\ resp.role = "guest"
    /\ sessions[resp.token].status = ACTIVE
    /\ Len(Participants(resp.token)) = 2
    /\ resp.participant_id = Participants(resp.token)[2].id
    /\ Participants(resp.token)[2].client_identity = "idA"
    /\ Participants(resp.token)[1].client_identity = "idA"
    /\ Participants(resp.token)[2].ip_address = Participants(resp.token)[1].ip_address

(* C27 as stated: when the wait of a loop that was computed while the       *)
(* session was ACTIVE times out, the persisted status becomes CLOSED, a     *)
(* session_closed event is delivered to a connection of every participant   *)
(* that has a connection open on the token, the loop ends and its           *)
(* participant is no longer registered.                                     *)
C27_TimeoutCloses ==
    [][\A h \in DOMAIN loops :
          LET p == ServedBy(h)
              tok == p[1]
          IN (/\ loops[h].timeout # NoTime
              /\ now >= loops[h].timeout
              /\ h \notin DOMAIN loops'
              /\ resp'.detail = "timeout")
             => /\ sessions'[tok].status = CLOSED
                /\ \A c \in OpenOn(tok) :
                      \E d \in resp'.deliveries :
                          /\ d.to \in OpenOn(tok)
                          /\ ServedBy(d.to) = ServedBy(c)
                          /\ d.message = EventMessage("session_closed")
                /\ \A e \in hub' : ~(e[1] = tok /\ e[2] = p)
      ]_vars

(* C28: while a broadcast is in progress, between its deliveries, the lock  *)
(* of the hub is free, so that connect, disconnect, send and                *)
(* connected_participants of the other loops go through; and a broadcast    *)
(* that returns has delivered to exactly the connections registered on the  *)
(* token when it copied the registry, the excluded participant left out,    *)
(* whatever was registered or removed since.                                *)
C28_LockOnlyForSnapshot ==
    [][/\ casts' # << >> => lock' = Free
       /\ \A h \in DOMAIN casts :
              h \notin DOMAIN casts'
              => /\ resp'.deliveries
                       = Owed(casts[h].websockets, casts[h].message, casts[h].skip)
                 /\ \A d \in resp'.deliveries :
                       /\ <<casts[h].token, d.to[1], d.to>> \in casts[h].websockets
                       /\ d.to[1] # ServedBy(h)
      ]_vars

C28_Witness ==
    \E h \in DOMAIN casts :
        /\ casts[h].pending # {}
        /\ \E x \in hub :
               /\ x[1] = casts[h].token
               /\ x[2] \notin casts[h].skip
               /\ x \notin casts[h].websockets

(* C29 as stated: when a loop exits on a failure, every other connection    *)
(* stays open and every registered one stays registered; and a recipient    *)
(* whose socket has gone away or fails on delivery neither closes the       *)
(* connection of the sender nor keeps the broadcast from the remaining      *)
(* recipients.                                                              *)
C29_FailureIsolated ==
    [][\A h \in DOMAIN loops :
          /\ (h \notin DOMAIN loops' /\ resp'.detail = "error")
                => \A c \in DOMAIN loops \ {h} :
                      /\ c \in DOMAIN loops'
                      /\ \A e \in hub : e[3] = c => e \in hub'
          /\ h \in DOMAIN casts => h \in DOMAIN loops'
          /\ (h \in DOMAIN casts /\ h \notin DOMAIN casts')
                => Cardinality(Owed(casts[h].websockets, casts[h].message,
                                    casts[h].skip) \ resp'.deliveries) <= 1
      ]_vars

(* C30: a connection is registered only if, when it is accepted, the token  *)
(* exists, the recomputed session is not EXPIRED, CLOSED or DELETED and the *)
(* participant id given belongs to the session; a caller that fails one of  *)
(* these is refused and the registry and the running loops stay as they     *)
(* were; and every participant id registered under a token is a participant *)
(* of that token's session.                                                 *)
C30_RegisteredOnlyIfAccepted ==
    [][/\ \A e \in hub' \ hub :
              /\ TokenFound(e[1])
              /\ Recomputed(e[1]).status \notin Terminal
              /\ HasParticipant(sessions[e[1]], e[2])
       /\ resp'.op = "ws_refused"
              => /\ hub' = hub
                 /\ loops' = loops
                 /\ \/ ~TokenFound(resp'.token)
                    \/ Recomputed(resp'.token).status \in Terminal
                    \/ ~HasParticipant(sessions[resp'.token], resp'.participant_id)
       /\ \A e \in hub' :
              /\ TokenFound(e[1])
              /\ HasParticipant(sessions'[e[1]], e[2])
      ]_vars

C30_Witness ==
    /\ resp.op = "ws_refused"
    /\ resp.code = 1008
    /\ TokenFound(resp.token)
    /\ HasParticipant(sessions[resp.token], resp.participant_id)
    /\ Recomputed(resp.token).status = DELETED
    /\ \E e \in hub : e[1] = resp.token /\ e[2] # resp.participant_id

(* C31: on every step that ends a connection loop, by a client disconnect,  *)
(* a timeout, a terminal status found at the top of the loop or a failure,  *)
(* the participant of the loop has no entry left in the registry of its     *)
(* token, the other entries stay, a token without entries has no bucket,    *)
(* and a status snapshot listing exactly the participants still registered, *)
(* hence not the departed one, is delivered to every connection that        *)
(* remains registered on the token and to no other.                         *)
C31_ExitUnregistersAndAnnounces ==
    [][\A h \in DOMAIN loops :
          h \notin DOMAIN loops'
          => LET p == ServedBy(h)
                 tok == p[1]
                 remain == {e \in hub' : e[1] = tok}
                 told == {d \in resp'.deliveries : d.message.type = "status"}
             IN /\ resp'.detail \in {"disconnect", "timeout", "terminal", "error"}
                /\ hub' = {e \in hub : ~(e[1] = tok /\ e[2] = p)}
                /\ remain = {} => tok \notin {e[1] : e \in hub'}
                /\ {d.to : d \in told} = {e[3] : e \in remain}
                /\ \A d \in told :
                      /\ p \notin d.message.connected_participants
                      /\ d.message.connected_participants = {e[2] : e \in remain}
                      /\ d.message.payload = sessions'[tok].status
      ]_vars

C31_Witness ==
    /\ resp.op = "broadcast"
    /\ resp.detail = "error"
    /\ \E d \in resp.deliveries :
           /\ d.message.type = "status"
           /\ d.to \in DOMAIN loops
           /\ Cardinality(d.message.connected_participants) = 1

(* C32: a report whose reporter participant id is not an id of a            *)
(* participant of the session, or that carries none, is accepted and stored *)
(* without a reporting participant, with a snapshot of every participant of *)
(* the session; a report whose id is one of the session's is stored with    *)
(* it, and its snapshot holds every participant but that one.               *)
C32_UnknownReporterUnattributed ==
    [][Len(reports') > Len(reports)
          => LET r == reports'[Len(reports')]
                 given == resp'.participant_id
                 ps == Recomputed(r.session_token).participants
                 ids == [k \in 1..Len(ps) |-> ps[k].id]
                 snapped == [n \in 1..Len(r.remote_participants) |->
                                r.remote_participants[n].participant_id]
             IN /\ resp'.op = "report"
                /\ resp'.code = 200
                /\ resp'.report_id = r.id
                /\ IF given # NoPid /\ \E k \in 1..Len(ps) : ps[k].id = given
                   THEN /\ r.participant_id = given
                        /\ snapped = SelectSeq(ids, LAMBDA x : x # given)
                   ELSE /\ r.participant_id = NoPid
                        /\ snapped = ids
      ]_vars

C32_Witness ==
    /\ resp.op = "report"
    /\ resp.code = 200
    /\ resp.participant_id = UnknownPid
    /\ Len(reports) > 0
    /\ reports[Len(reports)].participant_id = NoPid
    /\ Len(reports[Len(reports)].remote_participants) = 2

(* C33 as stated: when an abuse report ends a session that is not terminal  *)
(* after recomputation, the live-end time is written only if it was unset:  *)
(* a session that had one keeps it, a session that had none gets now.       *)
C33_ReportKeepsLiveEnd ==
    [][Len(reports') > Len(reports)
          => LET tok == reports'[Len(reports')].session_token
                 loaded == Recomputed(tok)
             IN loaded.status \notin Terminal
                => sessions'[tok].ended_at
                      = IF loaded.ended_at # NoTime THEN loaded.ended_at ELSE now
      ]_vars

(* C34 as stated: the admin rate-limit listing agrees with the rate        *)
(* limiter: an identifier (client identity or address) is in the listing   *)
(* exactly when a token request resolving to it would be rejected then.    *)
Listed(identifier_type, identifier) ==
    \E i \in DOMAIN resp.request.locks :
        /\ resp.request.locks[i].identifier_type = identifier_type
        /\ resp.request.locks[i].identifier = identifier

C34_ListingAgreesWithLimiter ==
    resp.op = "rate_limits"
    => /\ \A identity \in Identities, ip \in IssuerIPs :
             Listed("client_identity", identity)
             <=> enforce_rate_limit(logs, ip, identity, now,
                                    settings.token_rate_limit_per_hour)
       /\ \A ip \in IssuerIPs :
             Listed("ip_address", ip)
             <=> enforce_rate_limit(logs, ip, None, now,
                                    settings.token_rate_limit_per_hour)

(* C35: a token issuance rejected by the rate limiter leaves the request   *)
(* log and the sessions as they were; the log grows only by an accepted    *)
(* issuance, which appends exactly one entry and exactly one session, in   *)
(* status ISSUED with no participants, no live-start and no live-end time  *)
(* and a message character limit within the configured limits; the log     *)
(* shrinks only by the admin reset, and no entry is ever rewritten.        *)
NewSessionIssued(s) ==
    /\ s.status = ISSUED
    /\ s.participants = <<>>
    /\ s.started_at = NoTime
    /\ s.ended_at = NoTime
    /\ s.message_char_limit >= settings.min_message_char_limit
    /\ s.message_char_limit <= settings.max_message_char_limit

IsSubSeq(small, big) ==
    \E f \in [1..Len(small) -> 1..Len(big)] :
        /\ \A i, j \in 1..Len(small) : i < j => f[i] < f[j]
        /\ \A i \in 1..Len(small) : small[i] = big[f[i]]

C35_LedgerOfIssuances ==
    [][/\ (resp'.op = "issue" /\ resp'.code = 429)
          => logs' = logs /\ sessions' = sessions
       /\ (resp'.op = "issue" /\ resp'.code = 200 /\ resp' # resp)
          => /\ Len(logs') = Len(logs) + 1
             /\ Len(sessions') = Len(sessions) + 1
       /\ Len(logs') > Len(logs)
          => /\ resp'.op = "issue" /\ resp'.code = 200
             /\ Len(logs') = Len(logs) + 1
             /\ SubSeq(logs', 1, Len(logs)) = logs
       /\ Len(sessions') # Len(sessions)
          => /\ Len(logs') = Len(logs) + 1
             /\ Len(sessions') = Len(sessions) + 1
             /\ SubSeq(sessions', 1, Len(sessions)) = sessions
             /\ logs'[Len(logs')].session_id = Len(sessions')
             /\ NewSessionIssued(sessions'[Len(sessions')])
       /\ (logs' # logs /\ Len(logs') <= Len(logs))
          => /\ resp'.op = "reset"
             /\ Len(logs') < Len(logs)
             /\ IsSubSeq(logs', logs)
      ]_vars

C35_Witness ==
    /\ resp.op = "issue" /\ resp.code = 429
    /\ \E tok \in 1..Len(sessions) :
          sessions[tok].message_char_limit = settings.min_message_char_limit
    /\ \E tok \in 1..Len(sessions) :
          sessions[tok].message_char_limit = settings.max_message_char_limit
    /\ Len(logs) < Len(sessions)

(* C36 as stated: in every reachable state a session is ACTIVE only with   *)
(* exactly two participants, and a session that is ISSUED or EXPIRED has   *)
(* at most one participant and neither live-start nor live-end time.       *)
C36_StatusAndSeats ==
    \A tok \in 1..Len(sessions) :
        LET s == sessions[tok]
        IN /\ s.status = ACTIVE => Len(s.participants) = 2
           /\ s.status \in {ISSUED, EXPIRED}
                 => /\ Len(s.participants) <= 1
                    /\ s.started_at = NoTime
                    /\ s.ended_at = NoTime

(* C37 as stated: the hub entry of a participant holds its most recently   *)
(* accepted connection (connect overwrites the entry); as long as the loop *)
(* of that connection is running the participant stays registered with it, *)
(* unless a later connection of the participant takes the entry: the exit  *)
(* of an earlier connection's loop leaves it in place.                     *)
C37_LatestStaysRegistered ==
    [][\A e \in hub :
          e[3] \in DOMAIN loops'
          => \/ e \in hub'
             \/ \E later \in hub' :
                   /\ later[1] = e[1] /\ later[2] = e[2]
                   /\ later[3] \notin DOMAIN loops
      ]_vars

(* C38 as stated: once the persisted status of a session is terminal (a    *)
(* delete, an abuse report or a timeout-driven close has committed), no    *)
(* step delivers a signal to a connection of that session.                 *)
C38_NoRelayOnceTerminal ==
    [][\A tok \in 1..Len(sessions) :
          (sessions[tok].status \in Terminal /\ resp' # resp)
          => \A d \in resp'.deliveries :
                ~(d.to[1][1] = tok /\ d.message.type = "signal")
      ]_vars

(* C39 as stated: when time passes and due timeouts are served, and the    *)
(* client neither sends nor disconnects, every connection loop of a        *)
(* session that is over (closed, expired, deleted or reported, after       *)
(* recomputation) eventually ends and its participant is unregistered,     *)
(* whether its wait began while the session was ACTIVE or ISSUED.          *)
LoopHandles == {<<<<tok, seat>>, k>> : tok \in SharedTokens, seat \in 1..2, k \in 1..MaxConns}

SessionOver(h) ==
    /\ h \in DOMAIN loops
    /\ Recomputed(h[1][1]).status \in Terminal

LoopGone(h) ==
    /\ h \notin DOMAIN loops
    /\ \A e \in hub : e[3] # h

C39_LoopsEnd ==
    \A h \in LoopHandles : SessionOver(h) ~> LoopGone(h)

(* C40 as stated: two distinct participants of one session never hold the  *)
(* same non-null client identity, so that a join carrying an identity      *)
(* matches at most one seat.                                               *)
C40_IdentityUnique ==
    \A tok \in 1..Len(sessions) :
        \A i, j \in 1..Len(Participants(tok)) :
            (i # j /\ Truthy(Participants(tok)[i].client_identity))
            => Participants(tok)[i].client_identity # Participants(tok)[j].client_identity

============================================================================
